---- MODULE Spec2Model ----
(***************************************************************************)
(* Model of typify-impl/src/test_util.rs: the SynCompare oracle            *)
(* (syn_cmp on DeriveInput, Variant, Fields, Field, Type, ...), the serde  *)
(* attribute normalizer get_serde / compare_attributes, and the harness    *)
(* validate_output_impl.                                                   *)
(*                                                                         *)
(* Values.  Rust Strings that the code inspects character by character     *)
(* (the serde directive strings) are sequences of one-character strings.   *)
(* Identifiers and path segments, which the code only compares whole, are  *)
(* TLA+ strings.  Rust enums are tuples whose first element is the         *)
(* variant's name.  Result<(), String> is <<"Ok">> or <<"Err", what, ..>>  *)
(* (the format string and its arguments); a panic (assert!, panic!,        *)
(* unwrap) unwinds through every caller and is the value <<"Panic">>.      *)
(***************************************************************************)
EXTENDS Integers, Sequences, FiniteSets, TLC

VARIABLES unit, a, b, ignore_variant_names, pc, result, stdout, panic_message

vars == <<unit, a, b, ignore_variant_names, pc, result, stdout, panic_message>>

\* Longest sequence (fields, variants, tuple elements, attributes) drawn as an input.
MaxLen == 2

-----------------------------------------------------------------------------
(* Results *)

Ok == <<"Ok">>
Panic == <<"Panic">>
Err1(what) == <<"Err", what>>
Err2(what, x, y) == <<"Err", what, x, y>>

IsOk(r) == r[1] = "Ok"
IsErr(r) == r[1] = "Err"
IsPanic(r) == r[1] = "Panic"

-----------------------------------------------------------------------------
(* proc_macro2 token trees and strings *)

Min(S) == CHOOSE x \in S : \A y \in S : x <= y

Ident(chars) == <<"Ident", chars>>
Punct(chars) == <<"Punct", chars>>
Literal(chars) == <<"Literal", chars>>
Group(stream) == <<"Group", stream>>

sRename == <<"r", "e", "n", "a", "m", "e">>
sRenameAll == sRename \o <<"_", "a", "l", "l">>
sDefault == <<"d", "e", "f", "a", "u", "l", "t">>
sUntagged == <<"u", "n", "t", "a", "g", "g", "e", "d">>
sBound == <<"b", "o", "u", "n", "d">>
sLitX == <<"\"", "x", "\"">>

tRename == Ident(sRename)
tRenameAll == Ident(sRenameAll)
tDefault == Ident(sDefault)
tUntagged == Ident(sUntagged)
tBound == Ident(sBound)
tEq == Punct(<<"=">>)
tComma == Punct(<<",">>)
tLitX == Literal(sLitX)

\* matches!(token, TokenTree::Punct(punct) if punct.as_char() == ',')
IsComma(token) == token[1] = "Punct" /\ token[2] = <<",">>

\* <[TokenTree]>::split(pred): the runs between the matching tokens; an empty
\* slice yields one empty run, a trailing match yields a final empty run.
RECURSIVE split(_)
split(tokens) ==
    LET hits == {i \in 1..Len(tokens) : IsComma(tokens[i])}
    IN  IF hits = {}
        THEN <<tokens>>
        ELSE LET i == Min(hits)
             IN  <<SubSeq(tokens, 1, i - 1)>> \o split(SubSeq(tokens, i + 1, Len(tokens)))

\* TokenStream::to_string: the tokens separated by single spaces, a group as
\* its delimiters around its own stream.
RECURSIVE to_string(_)
to_string(tokens) ==
    IF tokens = <<>>
    THEN <<>>
    ELSE LET t == Head(tokens)
             s == IF t[1] = "Group" THEN <<"(">> \o to_string(t[2]) \o <<")">> ELSE t[2]
         IN  IF Len(tokens) = 1 THEN s ELSE s \o <<" ">> \o to_string(Tail(tokens))

\* str::starts_with
starts_with(s, prefix) ==
    Len(s) >= Len(prefix) /\ SubSeq(s, 1, Len(prefix)) = prefix

SeqRange(s) == {s[i] : i \in 1..Len(s)}

-----------------------------------------------------------------------------
(* get_serde, compare_attributes *)

Attribute(path, tokens) == [path |-> path, tokens |-> tokens]

NotRename(s) == ~starts_with(s, sRename)

\* The directive strings of one serde group (test_util.rs lines 96-111): the
\* comma-separated runs, each joined into a string, the strings that start
\* with "rename" filtered out.
serde_options(group) ==
    LET runs == split(group[2])
        strings == [i \in 1..Len(runs) |-> to_string(runs[i])]
        kept[i \in 0..Len(strings)] ==
            IF i = 0 THEN <<>>
            ELSE IF NotRename(strings[i]) THEN Append(kept[i - 1], strings[i])
            ELSE kept[i - 1]
    IN  kept[Len(strings)]

\* The filter_map closure of get_serde: None, Some(vec) or a failed assert!.
serde_closure(attr) ==
    IF attr.path = <<>>
    THEN [panic |-> FALSE, some |-> FALSE, vec |-> <<>>]
    ELSE IF attr.path[1] = "serde"
         THEN IF attr.tokens # <<>> /\ attr.tokens[1][1] = "Group"
              THEN IF Len(attr.tokens) > 1
                   THEN [panic |-> TRUE, some |-> FALSE, vec |-> <<>>]
                   ELSE [panic |-> FALSE, some |-> TRUE,
                         vec |-> serde_options(attr.tokens[1])]
              ELSE [panic |-> FALSE, some |-> FALSE, vec |-> <<>>]
         ELSE [panic |-> FALSE, some |-> FALSE, vec |-> <<>>]

\* get_serde: the HashSet of the directive strings of every serde attribute,
\* or a panic at the first attribute whose group is followed by more tokens.
get_serde(attrs) ==
    LET each == [i \in 1..Len(attrs) |-> serde_closure(attrs[i])]
    IN  IF \E i \in 1..Len(attrs) : each[i].panic
        THEN [panic |-> TRUE, set |-> {}]
        ELSE [panic |-> FALSE,
              set |-> UNION {SeqRange(each[i].vec) : i \in {j \in 1..Len(attrs) : each[j].some}}]

compare_attributes(attrs_a, attrs_b) ==
    LET serde_options_a == get_serde(attrs_a)
        serde_options_b == get_serde(attrs_b)
    IN  IF serde_options_a.panic \/ serde_options_b.panic
        THEN Panic
        ELSE IF serde_options_a.set = serde_options_b.set
             THEN Ok
             ELSE Err2("different serde options", serde_options_a.set, serde_options_b.set)

-----------------------------------------------------------------------------
(* SynCompare *)

\* Ident::syn_cmp with the test inverted.
Ident_syn_cmp_inverted(self, other, flag) ==
    IF self = other THEN Err2("idents differ", self, other) ELSE Ok

\* impl SynCompare for syn::Ident
Ident_syn_cmp(self, other, flag) ==
    IF self # other THEN Err2("idents differ", self, other) ELSE Ok

\* Option<T>: None is <<>>, Some(x) is <<x>>.
None == <<>>
Some(x) == <<x>>

\* impl<T> SynCompare for Option<T>, T = syn::Ident
Option_Ident_syn_cmp(self, other, flag) ==
    IF self = None /\ other = None
    THEN Ok
    ELSE IF self # None /\ other # None
         THEN Ident_syn_cmp(self[1], other[1], flag)
         ELSE Err1("options don't match")

\* syn::Type: Type::Path(TypePath), Type::Tuple(TypeTuple), or one of the
\* other kinds (Type::Reference, Type::Array, ...), which carry nothing the
\* code reads.
TypePath(qself, path) == <<"Path", [qself |-> qself, path |-> path]>>
TypeTuple(elems) == <<"Tuple", [elems |-> elems]>>
TypeReference == <<"Reference">>
TypeArray == <<"Array">>

\* impl SynCompare for TypePath
TypePath_syn_cmp(self, other, flag) ==
    IF self.qself # None \/ other.qself # None
    THEN Panic
    ELSE IF self.path # other.path
         THEN Err2("paths did not match", self.path, other.path)
         ELSE Ok

RECURSIVE Type_syn_cmp(_, _, _)

\* impl<T, P> SynCompare for Punctuated<T, P>, T = Type.  try_for_each over
\* the zipped elements returns the first result that is not Ok.
Punctuated_Type_syn_cmp(self, other, flag) ==
    IF Len(self) # Len(other)
    THEN Err2("lengths don't match", Len(self), Len(other))
    ELSE LET try_for_each[i \in 1..(Len(self) + 1)] ==
                 IF i > Len(self)
                 THEN Ok
                 ELSE LET r == Type_syn_cmp(self[i], other[i], flag)
                      IN  IF IsOk(r) THEN try_for_each[i + 1] ELSE r
         IN  try_for_each[1]

\* impl SynCompare for TypeTuple
TypeTuple_syn_cmp(self, other, flag) ==
    Punctuated_Type_syn_cmp(self.elems, other.elems, FALSE)

\* Type::syn_cmp whose fallback arm passes.
Type_syn_cmp_fallback_ok(self, other, flag) ==
    IF self[1] = "Tuple" /\ other[1] = "Tuple"
    THEN TypeTuple_syn_cmp(self[2], other[2], FALSE)
    ELSE IF self[1] = "Path" /\ other[1] = "Path"
         THEN TypePath_syn_cmp(self[2], other[2], FALSE)
         ELSE Ok

\* impl SynCompare for Type
Type_syn_cmp(self, other, flag) ==
    IF self[1] = "Tuple" /\ other[1] = "Tuple"
    THEN TypeTuple_syn_cmp(self[2], other[2], FALSE)
    ELSE IF self[1] = "Path" /\ other[1] = "Path"
         THEN TypePath_syn_cmp(self[2], other[2], FALSE)
         ELSE Err2("unexpected or mistmatched type pair", self, other)

Field(attrs, ident, ty) == [attrs |-> attrs, ident |-> ident, ty |-> ty]

\* impl SynCompare for Field
Field_syn_cmp(self, other, flag) ==
    LET r1 == Option_Ident_syn_cmp(self.ident, other.ident, FALSE)
    IN  IF ~IsOk(r1)
        THEN r1
        ELSE LET r2 == Type_syn_cmp(self.ty, other.ty, FALSE)
             IN  IF ~IsOk(r2) THEN r2 ELSE Ok

\* Punctuated<Field, P>::syn_cmp zipping the fields without the length test.
Punctuated_Field_syn_cmp_no_length_test(self, other, flag) ==
    LET n == IF Len(self) < Len(other) THEN Len(self) ELSE Len(other)
        try_for_each[i \in 1..(n + 1)] ==
            IF i > n
            THEN Ok
            ELSE LET r == Field_syn_cmp(self[i], other[i], flag)
                 IN  IF IsOk(r) THEN try_for_each[i + 1] ELSE r
    IN  try_for_each[1]

\* impl<T, P> SynCompare for Punctuated<T, P>, T = Field
Punctuated_Field_syn_cmp(self, other, flag) ==
    IF Len(self) # Len(other)
    THEN Err2("lengths don't match", Len(self), Len(other))
    ELSE LET try_for_each[i \in 1..(Len(self) + 1)] ==
                 IF i > Len(self)
                 THEN Ok
                 ELSE LET r == Field_syn_cmp(self[i], other[i], flag)
                      IN  IF IsOk(r) THEN try_for_each[i + 1] ELSE r
         IN  try_for_each[1]

\* syn::Fields
FieldsNamed(named) == <<"Named", [named |-> named]>>
FieldsUnnamed(unnamed) == <<"Unnamed", [unnamed |-> unnamed]>>
FieldsUnit == <<"Unit">>

\* impl SynCompare for FieldsNamed
FieldsNamed_syn_cmp(self, other, flag) ==
    Punctuated_Field_syn_cmp(self.named, other.named, FALSE)

\* impl SynCompare for FieldsUnnamed
FieldsUnnamed_syn_cmp(self, other, flag) ==
    Punctuated_Field_syn_cmp(self.unnamed, other.unnamed, FALSE)

\* impl SynCompare for Fields
Fields_syn_cmp(self, other, flag) ==
    IF self[1] = "Named" /\ other[1] = "Named"
    THEN FieldsNamed_syn_cmp(self[2], other[2], FALSE)
    ELSE IF self[1] = "Unnamed" /\ other[1] = "Unnamed"
         THEN FieldsUnnamed_syn_cmp(self[2], other[2], FALSE)
         ELSE IF self[1] = "Unit" /\ other[1] = "Unit"
              THEN Ok
              ELSE Err1("mismatched field types")

Variant(ident, fields) == [ident |-> ident, fields |-> fields]

\* Variant::syn_cmp comparing identifiers exactly when the flag is set.
Variant_syn_cmp_flag_inverted(self, other, flag) ==
    LET r1 == IF flag THEN Ident_syn_cmp(self.ident, other.ident, FALSE) ELSE Ok
    IN  IF ~IsOk(r1)
        THEN r1
        ELSE Fields_syn_cmp(self.fields, other.fields, FALSE)

\* Variant::syn_cmp returning early, fields uncompared, when the flag is set.
Variant_syn_cmp_relaxed_skips_fields(self, other, flag) ==
    IF flag
    THEN Ok
    ELSE LET r1 == Ident_syn_cmp(self.ident, other.ident, FALSE)
         IN  IF ~IsOk(r1) THEN r1 ELSE Fields_syn_cmp(self.fields, other.fields, FALSE)

\* impl SynCompare for Variant
Variant_syn_cmp(self, other, flag) ==
    LET r1 == IF ~flag THEN Ident_syn_cmp(self.ident, other.ident, FALSE) ELSE Ok
    IN  IF ~IsOk(r1)
        THEN r1
        ELSE Fields_syn_cmp(self.fields, other.fields, FALSE)

\* syn::Data
DataStruct(fields) == <<"Struct", [fields |-> fields]>>
DataEnum(variants) == <<"Enum", [variants |-> variants]>>
DataUnion == <<"Union">>

\* impl SynCompare for DataStruct
DataStruct_syn_cmp(self, other, flag) ==
    Fields_syn_cmp(self.fields, other.fields, FALSE)

\* Punctuated<Variant, P>::syn_cmp matching each variant against any variant
\* of the other side instead of the one at its position.
Punctuated_Variant_syn_cmp_by_content(self, other, flag) ==
    IF Len(self) # Len(other)
    THEN Err2("lengths don't match", Len(self), Len(other))
    ELSE IF \A i \in 1..Len(self) : \E j \in 1..Len(other) :
                IsOk(Variant_syn_cmp(self[i], other[j], flag))
         THEN Ok
         ELSE Err1("no matching variant")

\* impl<T, P> SynCompare for Punctuated<T, P>, T = Variant
Punctuated_Variant_syn_cmp(self, other, flag) ==
    IF Len(self) # Len(other)
    THEN Err2("lengths don't match", Len(self), Len(other))
    ELSE LET try_for_each[i \in 1..(Len(self) + 1)] ==
                 IF i > Len(self)
                 THEN Ok
                 ELSE LET r == Variant_syn_cmp(self[i], other[i], flag)
                      IN  IF IsOk(r) THEN try_for_each[i + 1] ELSE r
         IN  try_for_each[1]

\* impl SynCompare for DataEnum
DataEnum_syn_cmp(self, other, flag) ==
    Punctuated_Variant_syn_cmp(self.variants, other.variants, flag)

DeriveInput(ident, attrs, data) == [ident |-> ident, attrs |-> attrs, data |-> data]

\* impl SynCompare for DeriveInput
DeriveInput_syn_cmp(self, other, flag) ==
    LET r1 == Ident_syn_cmp(self.ident, other.ident, FALSE)
    IN  IF ~IsOk(r1)
        THEN r1
        ELSE LET r2 == compare_attributes(self.attrs, other.attrs)
             IN  IF ~IsOk(r2)
                 THEN r2
                 ELSE IF self.data[1] = "Struct" /\ other.data[1] = "Struct"
                      THEN DataStruct_syn_cmp(self.data[2], other.data[2], flag)
                      ELSE IF self.data[1] = "Enum" /\ other.data[1] = "Enum"
                           THEN DataEnum_syn_cmp(self.data[2], other.data[2], flag)
                           ELSE IF self.data[1] = "Union" /\ other.data[1] = "Union"
                                THEN Err1("unions are not supported")
                                ELSE Err1("mismatched data")

-----------------------------------------------------------------------------
(* Inputs *)

SeqsUpTo(S, n) == UNION {[1..k -> S] : k \in 0..n}

pI32 == <<"i32">>
pString == <<"String">>
pStdString == <<"std", "string", "String">>

tyI32 == TypePath(None, pI32)
tyString == TypePath(None, pString)
tyStdString == TypePath(None, pStdString)
\* <T as Trait>::i32, a path with a qualified self type
tyQSelf == TypePath(Some("T"), pI32)

\* Elements of the tuple types that are compared.
ElemTypes == {tyI32, tyString, tyQSelf, TypeReference, TypeTuple(<<tyI32>>)}

Types ==
    {tyI32, tyString, tyStdString, tyQSelf, TypeReference, TypeArray}
        \cup {TypeTuple(elems) : elems \in SeqsUpTo(ElemTypes, MaxLen)}

\* #[serde(<stream>)]
Serde(stream) == Attribute(<<"serde">>, <<Group(stream)>>)

aDefault == Serde(<<tDefault>>)
aUntagged == Serde(<<tUntagged>>)
aRename == Serde(<<tRename, tEq, tLitX>>)
aRenameAll == Serde(<<tRenameAll, tEq, tLitX>>)
aEmpty == Serde(<<>>)
\* #[serde(untagged) default]: a group followed by another token
aGroupThenMore == Attribute(<<"serde">>, <<Group(<<tUntagged>>), tDefault>>)
\* #[serde]
aNoTokens == Attribute(<<"serde">>, <<>>)
\* #[serde = "x"]
aNoGroup == Attribute(<<"serde">>, <<tEq, tLitX>>)
\* #[doc(default)]
aDoc == Attribute(<<"doc">>, <<Group(<<tDefault>>)>>)
\* an attribute whose path has no segment
aNoPath == Attribute(<<>>, <<Group(<<tDefault>>)>>)

Attributes ==
    { aDefault, aUntagged, aRename, aRenameAll, aEmpty, aGroupThenMore, aNoTokens,
      aNoGroup, aDoc, aNoPath,
      Serde(<<tDefault, tComma, tUntagged>>),
      Serde(<<tUntagged, tComma, tDefault>>),
      Serde(<<tDefault, tComma, tRename, tEq, tLitX>>),
      Serde(<<tDefault, tComma>>),
      Serde(<<tDefault, tEq, Literal(<<"\"">> \o sRename \o <<"\"">>)>>),
      Serde(<<tBound, Group(<<tDefault, tComma, tUntagged>>)>>) }

AttributeLists == SeqsUpTo(Attributes, MaxLen)

\* The attribute lists compare_attributes is applied to.
ComparedAttributeLists ==
    { <<>>, <<aDefault>>, <<aUntagged>>, <<aRename>>, <<aEmpty>>, <<aDoc>>, <<aNoTokens>>,
      <<aGroupThenMore>>, <<aDefault, aUntagged>>, <<aUntagged, aDefault>>,
      <<Serde(<<tDefault, tComma, tUntagged>>)>>,
      <<Serde(<<tDefault, tComma, tRename, tEq, tLitX>>)>>,
      <<aDefault, aDefault>> }

FieldAttributeLists == {<<>>, <<aDefault>>, <<aRename>>}

FieldIdents == {None, Some("x"), Some("y")}

FieldTypes == {tyI32, tyString, TypeTuple(<<tyI32, tyString>>), TypeReference}

FieldInputs ==
    {Field(attrs, ident, ty) :
        attrs \in FieldAttributeLists, ident \in FieldIdents, ty \in FieldTypes}

NamedFields ==
    { Field(<<>>, Some("x"), tyI32), Field(<<>>, Some("y"), tyI32),
      Field(<<>>, Some("x"), tyString), Field(<<aDefault>>, Some("x"), tyI32) }

UnnamedFields ==
    {Field(<<>>, None, tyI32), Field(<<>>, None, tyString), Field(<<>>, None, tyQSelf)}

FieldsInputs ==
    {FieldsNamed(named) : named \in SeqsUpTo(NamedFields, MaxLen)}
        \cup {FieldsUnnamed(unnamed) : unnamed \in SeqsUpTo(UnnamedFields, MaxLen)}
        \cup {FieldsUnit}

Unnamed1(ty) == FieldsUnnamed(<<Field(<<>>, None, ty)>>)
Named1(ident, ty) == FieldsNamed(<<Field(<<>>, Some(ident), ty)>>)

Variants ==
    { Variant("A", Unnamed1(tyI32)), Variant("B", Unnamed1(tyI32)),
      Variant("B", Unnamed1(tyString)), Variant("A", Named1("x", tyI32)),
      Variant("A", Named1("y", tyI32)), Variant("A", Unnamed1(tyQSelf)) }

DataEnumInputs == {[variants |-> vs] : vs \in SeqsUpTo(Variants, MaxLen)}

\* The declarations the harness compares.
DeclIdents == {"S", "T"}

DeclAttributeLists == {<<>>, <<aUntagged>>, <<aRenameAll>>, <<aEmpty>>, <<aGroupThenMore>>}

DeclVariants ==
    {Variant("A", Unnamed1(tyI32)), Variant("B", Unnamed1(tyI32)),
     Variant("B", Unnamed1(tyString))}

DeclData ==
    { DataStruct(FieldsUnit), DataStruct(Named1("x", tyI32)),
      DataStruct(Named1("x", TypeReference)), DataUnion,
      DataEnum(<<Variant("A", Named1("x", tyI32))>>),
      DataEnum(<<Variant("A", Named1("y", tyI32))>>) }
        \cup {DataEnum(<<>>)}
        \cup {DataEnum(<<v>>) : v \in DeclVariants}
        \cup {DataEnum(<<v, w>>) : v \in DeclVariants, w \in DeclVariants}

DeriveInputs ==
    {DeriveInput(ident, attrs, data) :
        ident \in DeclIdents, attrs \in DeclAttributeLists, data \in DeclData}

-----------------------------------------------------------------------------
(* State machine *)

Pending == <<"Pending">>

Harness == {"validate_output", "validate_output_for_untagged_enm"}

\* The harness compares expected = T::schema() with actual = the parsed output
\* of the conversion engine (lines 29-39): any two declarations.  The calls
\* into the engine, parse2, rustfmt and println! are taken to return.  Every
\* other unit is an impl of SynCompare, or a function, called on its own.
Init ==
    /\ pc = "start"
    /\ result = Pending
    /\ stdout = <<>>
    /\ panic_message = None
    /\ \/ /\ unit \in Harness
          /\ a \in DeriveInputs
          /\ b \in DeriveInputs
          /\ ignore_variant_names = FALSE
       \/ /\ unit = "Type"
          /\ a \in Types
          /\ b \in Types
          /\ ignore_variant_names = FALSE
       \/ /\ unit = "Field"
          /\ a \in FieldInputs
          /\ b \in FieldInputs
          /\ ignore_variant_names = FALSE
       \/ /\ unit = "Fields"
          /\ a \in FieldsInputs
          /\ b \in FieldsInputs
          /\ ignore_variant_names = FALSE
       \/ /\ unit = "DataEnum"
          /\ a \in DataEnumInputs
          /\ b \in DataEnumInputs
          /\ ignore_variant_names \in BOOLEAN
       \/ /\ unit = "compare_attributes"
          /\ a \in ComparedAttributeLists
          /\ b \in ComparedAttributeLists
          /\ ignore_variant_names = FALSE
       \/ /\ unit = "get_serde"
          /\ a \in AttributeLists
          /\ b = <<>>
          /\ ignore_variant_names = FALSE

\* validate_output::<T>()
validate_output ==
    /\ unit = "validate_output"
    /\ pc = "start"
    /\ ignore_variant_names' = FALSE
    /\ pc' = "syn_cmp"
    /\ UNCHANGED <<unit, a, b, result, stdout, panic_message>>

\* validate_output_for_untagged_enm::<T>()
validate_output_for_untagged_enm ==
    /\ unit = "validate_output_for_untagged_enm"
    /\ pc = "start"
    /\ ignore_variant_names' = TRUE
    /\ pc' = "syn_cmp"
    /\ UNCHANGED <<unit, a, b, result, stdout, panic_message>>

\* The harness panicking with the mismatch before printing the diagnostics.
validate_output_impl_syn_cmp_panic_first ==
    /\ unit \in Harness
    /\ pc = "syn_cmp"
    /\ result' = DeriveInput_syn_cmp(a, b, ignore_variant_names)
    /\ pc' = IF IsOk(result') THEN "returned"
             ELSE IF IsErr(result') THEN "panic"
             ELSE "panicked"
    /\ panic_message' = IF IsPanic(result') THEN Some(<<"assertion failed">>) ELSE None
    /\ UNCHANGED <<unit, a, b, ignore_variant_names, stdout>>

\* validate_output_impl, line 42: expected.syn_cmp(&actual, ignore_variant_names).
\* Ok falls through to the end of the function, Err(err) enters the if-let
\* body, a failed assert! inside the comparison unwinds out of the harness.
validate_output_impl_syn_cmp ==
    /\ unit \in Harness
    /\ pc = "syn_cmp"
    /\ result' = DeriveInput_syn_cmp(a, b, ignore_variant_names)
    /\ pc' = IF IsOk(result') THEN "returned"
             ELSE IF IsErr(result') THEN "println_schema"
             ELSE "panicked"
    /\ panic_message' = IF IsPanic(result') THEN Some(<<"assertion failed">>) ELSE None
    /\ UNCHANGED <<unit, a, b, ignore_variant_names, stdout>>

\* line 43: println!("{:#?}", schema)
validate_output_impl_println_schema ==
    /\ pc = "println_schema"
    /\ stdout' = Append(stdout, "schema")
    /\ pc' = "println_output"
    /\ UNCHANGED <<unit, a, b, ignore_variant_names, result, panic_message>>

\* line 44: println!("{}", rustfmt(output.to_string()).unwrap())
validate_output_impl_println_output ==
    /\ pc = "println_output"
    /\ stdout' = Append(stdout, "rustfmt(output)")
    /\ pc' = "panic"
    /\ UNCHANGED <<unit, a, b, ignore_variant_names, result, panic_message>>

\* line 45: panic!("{}", err)
validate_output_impl_panic ==
    /\ pc = "panic"
    /\ panic_message' = Some(Tail(result))
    /\ pc' = "panicked"
    /\ UNCHANGED <<unit, a, b, ignore_variant_names, result, stdout>>

call_Type_syn_cmp ==
    /\ unit = "Type"
    /\ pc = "start"
    /\ result' = Type_syn_cmp(a, b, ignore_variant_names)
    /\ pc' = "done"
    /\ UNCHANGED <<unit, a, b, ignore_variant_names, stdout, panic_message>>

call_Field_syn_cmp ==
    /\ unit = "Field"
    /\ pc = "start"
    /\ result' = Field_syn_cmp(a, b, ignore_variant_names)
    /\ pc' = "done"
    /\ UNCHANGED <<unit, a, b, ignore_variant_names, stdout, panic_message>>

call_Fields_syn_cmp ==
    /\ unit = "Fields"
    /\ pc = "start"
    /\ result' = Fields_syn_cmp(a, b, ignore_variant_names)
    /\ pc' = "done"
    /\ UNCHANGED <<unit, a, b, ignore_variant_names, stdout, panic_message>>

call_DataEnum_syn_cmp ==
    /\ unit = "DataEnum"
    /\ pc = "start"
    /\ result' = DataEnum_syn_cmp(a, b, ignore_variant_names)
    /\ pc' = "done"
    /\ UNCHANGED <<unit, a, b, ignore_variant_names, stdout, panic_message>>

call_compare_attributes ==
    /\ unit = "compare_attributes"
    /\ pc = "start"
    /\ result' = compare_attributes(a, b)
    /\ pc' = "done"
    /\ UNCHANGED <<unit, a, b, ignore_variant_names, stdout, panic_message>>

call_get_serde ==
    /\ unit = "get_serde"
    /\ pc = "start"
    /\ result' = (LET r == get_serde(a) IN IF r.panic THEN Panic ELSE <<"HashSet", r.set>>)
    /\ pc' = "done"
    /\ UNCHANGED <<unit, a, b, ignore_variant_names, stdout, panic_message>>

Next ==
    \/ validate_output
    \/ validate_output_for_untagged_enm
    \/ validate_output_impl_syn_cmp
    \/ validate_output_impl_println_schema
    \/ validate_output_impl_println_output
    \/ validate_output_impl_panic
    \/ call_Type_syn_cmp
    \/ call_Field_syn_cmp
    \/ call_Fields_syn_cmp
    \/ call_DataEnum_syn_cmp
    \/ call_compare_attributes
    \/ call_get_serde

Spec == Init /\ [][Next]_vars

-----------------------------------------------------------------------------
(* Properties *)

\* The harness has called the oracle on (a, b).
HarnessCompared == unit \in Harness /\ result[1] # "Pending"

\* A direct call of the named impl has returned.
Called(u) == unit = u /\ pc = "done"

\* A type reference built only from paths without a qualified self type and
\* from tuples of such references.
RECURSIVE SupportedType(_)
SupportedType(ty) ==
    \/ ty[1] = "Path" /\ ty[2].qself = None
    \/ ty[1] = "Tuple" /\ \A i \in 1..Len(ty[2].elems) : SupportedType(ty[2].elems[i])

FieldSeq(fields) ==
    IF fields[1] = "Named" THEN fields[2].named
    ELSE IF fields[1] = "Unnamed" THEN fields[2].unnamed
    ELSE <<>>

SupportedFields(fields) ==
    \A i \in 1..Len(FieldSeq(fields)) : SupportedType(FieldSeq(fields)[i].ty)

\* Every serde attribute that starts with a group consists of that group alone.
SingleGroupPayloads(attrs) ==
    \A i \in 1..Len(attrs) :
        (attrs[i].path # <<>> /\ attrs[i].path[1] = "serde"
            /\ attrs[i].tokens # <<>> /\ attrs[i].tokens[1][1] = "Group")
        => Len(attrs[i].tokens) = 1

SupportedDeriveInput(d) ==
    /\ SingleGroupPayloads(d.attrs)
    /\ \/ d.data[1] = "Struct" /\ SupportedFields(d.data[2].fields)
       \/ /\ d.data[1] = "Enum"
          /\ \A i \in 1..Len(d.data[2].variants) :
                SupportedFields(d.data[2].variants[i].fields)

\* C1 as stated: syn_cmp(T, T, false) returns Ok for every declaration tree T,
\* whatever its declaration kind and type references.
C1_ReflexiveOnEveryTree ==
    (HarnessCompared /\ a = b /\ ~ignore_variant_names) => IsOk(result)

\* C1 amended: syn_cmp(T, T, false) returns Ok for every tree T that is a
\* struct or an enum, whose serde attributes each consist of a single group,
\* and whose type references are paths without qualified self or tuples of
\* such; Type::syn_cmp(t, t) returns Ok for every such type reference t.
C1_ReflexiveOnSupportedTrees ==
    /\ (HarnessCompared /\ a = b /\ ~ignore_variant_names /\ SupportedDeriveInput(a))
        => IsOk(result)
    /\ (Called("Type") /\ a = b /\ SupportedType(a)) => IsOk(result)

C1_Witness ==
    /\ unit = "validate_output"
    /\ pc = "returned"
    /\ a = b
    /\ a.attrs = <<aUntagged>>
    /\ a.data[1] = "Enum"
    /\ Len(a.data[2].variants) = 2
    /\ IsOk(result)

BothEnum == a.data[1] = "Enum" /\ b.data[1] = "Enum"

EqualSerdeSets(attrs_a, attrs_b) ==
    /\ ~get_serde(attrs_a).panic
    /\ ~get_serde(attrs_b).panic
    /\ get_serde(attrs_a).set = get_serde(attrs_b).set

\* Two enums with the same identifier, equal normalized attribute sets, the
\* same number of variants and pairwise-equivalent field containers, at least
\* one pair of variants differing in identifier.
RenamedVariants ==
    /\ BothEnum
    /\ a.ident = b.ident
    /\ EqualSerdeSets(a.attrs, b.attrs)
    /\ Len(a.data[2].variants) = Len(b.data[2].variants)
    /\ \A i \in 1..Len(a.data[2].variants) :
          IsOk(Fields_syn_cmp(a.data[2].variants[i].fields, b.data[2].variants[i].fields, FALSE))
    /\ \E i \in 1..Len(a.data[2].variants) :
          a.data[2].variants[i].ident # b.data[2].variants[i].ident

FirstRenamed ==
    Min({i \in 1..Len(a.data[2].variants) :
            a.data[2].variants[i].ident # b.data[2].variants[i].ident})

\* C2: for two enums that differ only in variant identifiers, syn_cmp returns
\* Ok with ignore_variant_names = true, and with ignore_variant_names = false
\* it returns the "idents differ" error of the first renamed variant.
C2_VariantNameRelaxation ==
    (HarnessCompared /\ RenamedVariants) =>
        IF ignore_variant_names
        THEN IsOk(result)
        ELSE result = Err2("idents differ", a.data[2].variants[FirstRenamed].ident,
                           b.data[2].variants[FirstRenamed].ident)

C2_Witness ==
    /\ unit = "validate_output_for_untagged_enm"
    /\ pc = "returned"
    /\ RenamedVariants
    /\ Len(a.data[2].variants) = 2
    /\ FirstRenamed = 2
    /\ IsOk(result)

MinLen(xs, ys) == IF Len(xs) < Len(ys) THEN Len(xs) ELSE Len(ys)

RECURSIVE NoQSelf(_)
NoQSelf(ty) ==
    IF ty[1] = "Path" THEN ty[2].qself = None
    ELSE IF ty[1] = "Tuple" THEN \A i \in 1..Len(ty[2].elems) : NoQSelf(ty[2].elems[i])
    ELSE TRUE

\* No assert! of the oracle can fail on these variants.
AssertFreeVariants(vs) ==
    \A i \in 1..Len(vs) :
        \A j \in 1..Len(FieldSeq(vs[i].fields)) : NoQSelf(FieldSeq(vs[i].fields)[j].ty)

\* Some field of variant i of xs and the field at the same position of
\* variant i of ys differ in identifier or in type reference.
PairedFieldsDiffer(xs, ys) ==
    \E i \in 1..MinLen(xs, ys) :
        LET fa == FieldSeq(xs[i].fields)
            fb == FieldSeq(ys[i].fields)
        IN  \E j \in 1..MinLen(fa, fb) : fa[j].ident # fb[j].ident \/ fa[j].ty # fb[j].ty

\* C3: with ignore_variant_names = true syn_cmp still fails when the top-level
\* identifiers differ (with the "idents differ" error) and when two
\* positionally paired fields of positionally paired variants differ in
\* identifier or type reference (never Ok; an Err unless an assert! aborts).
C3_RelaxationKeepsIdentAndFields ==
    /\ (HarnessCompared /\ ignore_variant_names /\ a.ident # b.ident)
        => result = Err2("idents differ", a.ident, b.ident)
    /\ (HarnessCompared /\ ignore_variant_names /\ BothEnum
            /\ PairedFieldsDiffer(a.data[2].variants, b.data[2].variants))
        => /\ ~IsOk(result)
           /\ (SingleGroupPayloads(a.attrs) /\ SingleGroupPayloads(b.attrs)
                 /\ AssertFreeVariants(a.data[2].variants)
                 /\ AssertFreeVariants(b.data[2].variants)) => IsErr(result)
    /\ (Called("DataEnum") /\ ignore_variant_names /\ PairedFieldsDiffer(a.variants, b.variants))
        => /\ ~IsOk(result)
           /\ (AssertFreeVariants(a.variants) /\ AssertFreeVariants(b.variants))
                 => IsErr(result)

C3_Witness ==
    /\ unit = "validate_output_for_untagged_enm"
    /\ pc = "panicked"
    /\ a.ident = b.ident
    /\ EqualSerdeSets(a.attrs, b.attrs)
    /\ a.data = DataEnum(<<Variant("A", Unnamed1(tyI32)), Variant("A", Unnamed1(tyI32))>>)
    /\ b.data = DataEnum(<<Variant("B", Unnamed1(tyI32)), Variant("B", Unnamed1(tyString))>>)
    /\ result = Err2("paths did not match", pI32, pString)

Count(xs, v) == Cardinality({i \in 1..Len(xs) : xs[i] = v})

\* ys holds the variants of xs in another order.
Reordered(xs, ys) ==
    /\ Len(xs) = Len(ys)
    /\ xs # ys
    /\ \A i \in 1..Len(xs) : Count(xs, xs[i]) = Count(ys, xs[i])

Mismatched(xs, ys) ==
    {i \in 1..MinLen(xs, ys) : ~IsOk(Variant_syn_cmp(xs[i], ys[i], FALSE))}

FirstMismatch(xs, ys) ==
    Variant_syn_cmp(xs[Min(Mismatched(xs, ys))], ys[Min(Mismatched(xs, ys))], FALSE)

\* C4: with ignore_variant_names = false, two enums holding the same variants
\* in a different order, some position pairing variants that are not
\* equivalent, are never Ok: the result is the failure of the first such
\* position, index i against index i.
C4_PositionSensitivity ==
    /\ (Called("DataEnum") /\ ~ignore_variant_names /\ Reordered(a.variants, b.variants)
            /\ Mismatched(a.variants, b.variants) # {})
        => ~IsOk(result) /\ result = FirstMismatch(a.variants, b.variants)
    /\ (HarnessCompared /\ ~ignore_variant_names /\ BothEnum
            /\ Reordered(a.data[2].variants, b.data[2].variants)
            /\ Mismatched(a.data[2].variants, b.data[2].variants) # {})
        => /\ ~IsOk(result)
           /\ (a.ident = b.ident /\ EqualSerdeSets(a.attrs, b.attrs))
                => result = FirstMismatch(a.data[2].variants, b.data[2].variants)

C4_Witness ==
    /\ unit = "validate_output"
    /\ pc = "panicked"
    /\ a.ident = b.ident
    /\ a.attrs = b.attrs
    /\ a.data = DataEnum(<<Variant("A", Unnamed1(tyI32)), Variant("B", Unnamed1(tyString))>>)
    /\ b.data = DataEnum(<<Variant("B", Unnamed1(tyString)), Variant("A", Unnamed1(tyI32))>>)
    /\ result = Err2("idents differ", "A", "B")

LengthError(xs, ys) == Err2("lengths don't match", Len(xs), Len(ys))

SameShapeFields == a[1] = b[1] /\ a[1] \in {"Named", "Unnamed"}

\* C5: when the two variant sequences, the two field sequences of a Named or
\* Unnamed container, or the two element sequences of a tuple differ in
\* length, the comparison returns the "lengths don't match" error carrying
\* both lengths, whatever comparing the elements would have returned.
C5_LengthMismatch ==
    /\ (Called("DataEnum") /\ Len(a.variants) # Len(b.variants))
        => result = LengthError(a.variants, b.variants)
    /\ (Called("Fields") /\ SameShapeFields /\ Len(FieldSeq(a)) # Len(FieldSeq(b)))
        => result = LengthError(FieldSeq(a), FieldSeq(b))
    /\ (Called("Type") /\ a[1] = "Tuple" /\ b[1] = "Tuple"
            /\ Len(a[2].elems) # Len(b[2].elems))
        => result = LengthError(a[2].elems, b[2].elems)
    /\ (HarnessCompared /\ BothEnum /\ a.ident = b.ident /\ EqualSerdeSets(a.attrs, b.attrs)
            /\ Len(a.data[2].variants) # Len(b.data[2].variants))
        => result = LengthError(a.data[2].variants, b.data[2].variants)

\* Unnamed fields (<T>::i32) against (<T>::i32, String): comparing the first
\* pair would fail the assert! of TypePath::syn_cmp.
C5_Witness ==
    /\ Called("Fields")
    /\ a[1] = "Unnamed"
    /\ b[1] = "Unnamed"
    /\ Len(a[2].unnamed) = 1
    /\ Len(b[2].unnamed) = 2
    /\ IsPanic(Field_syn_cmp(a[2].unnamed[1], b[2].unnamed[1], FALSE))
    /\ result = Err2("lengths don't match", 1, 2)

RECURSIVE EqualTypes(_, _)
EqualTypes(x, y) ==
    \/ x[1] = "Path" /\ y[1] = "Path" /\ x[2].path = y[2].path
    \/ /\ x[1] = "Tuple"
       /\ y[1] = "Tuple"
       /\ Len(x[2].elems) = Len(y[2].elems)
       /\ \A i \in 1..Len(x[2].elems) : EqualTypes(x[2].elems[i], y[2].elems[i])

PathOrTuple(ty) == ty[1] \in {"Path", "Tuple"}

\* C7: Type::syn_cmp returns Ok only for two paths with equal paths or two
\* tuples of equal length with pairwise-equal elements; a path against a
\* tuple, and any pair with a side that is neither a path nor a tuple, returns
\* the "unexpected or mistmatched type pair" error.
C7_TypeKindMismatch ==
    Called("Type") =>
        /\ IsOk(result) => EqualTypes(a, b)
        /\ (a[1] # b[1] \/ ~PathOrTuple(a) \/ ~PathOrTuple(b))
            => result = Err2("unexpected or mistmatched type pair", a, b)

C7_Witness ==
    /\ Called("Type")
    /\ a = TypeReference
    /\ b = TypeReference
    /\ result = Err2("unexpected or mistmatched type pair", TypeReference, TypeReference)

\* The serde directives whose string begins with "rename".
RenameDirectives == {<<tRename, tEq, tLitX>>, <<tRenameAll, tEq, tLitX>>}

IsSerdeGroup(attr) ==
    /\ attr.path # <<>>
    /\ attr.path[1] = "serde"
    /\ Len(attr.tokens) = 1
    /\ attr.tokens[1][1] = "Group"

\* #[serde(d1, .., dn)] with the directive d added: #[serde(d1, .., dn, d)].
AddDirective(attr, d) ==
    LET stream == attr.tokens[1][2]
    IN  Attribute(attr.path, <<Group(IF stream = <<>> THEN d ELSE stream \o <<tComma>> \o d)>>)

\* attrs with one rename directive added, in a serde attribute of its own or
\* in the group of one of the serde attributes already there.
WithRenameAdded(attrs) ==
    {Append(attrs, Serde(d)) : d \in RenameDirectives}
        \cup {[attrs EXCEPT ![i] = AddDirective(attrs[i], d)] :
                i \in {j \in 1..Len(attrs) : IsSerdeGroup(attrs[j])}, d \in RenameDirectives}

FieldsWithRenameAdded(fields) ==
    IF fields[1] = "Named"
    THEN UNION {{FieldsNamed([fields[2].named EXCEPT ![i].attrs = x]) :
                    x \in WithRenameAdded(fields[2].named[i].attrs)} :
                i \in 1..Len(fields[2].named)}
    ELSE {}

DeclWithRenameAdded(d) ==
    {[d EXCEPT !.attrs = x] : x \in WithRenameAdded(d.attrs)}
        \cup (IF d.data[1] = "Struct"
              THEN {[d EXCEPT !.data = DataStruct(f)] :
                        f \in FieldsWithRenameAdded(d.data[2].fields)}
              ELSE {})

\* C6: adding a serde directive whose string begins with "rename" to a
\* declaration or to one of its fields does not change the result of syn_cmp
\* against any other tree.
C6_RenameInsensitive ==
    HarnessCompared =>
        \A a2 \in DeclWithRenameAdded(a) :
            DeriveInput_syn_cmp(a2, b, ignore_variant_names) = result

\* C8: two fields with equal identifier and equal type reference whose
\* normalized serde directive sets differ are reported as a mismatch.
C8_FieldAttributesCompared ==
    (Called("Field") /\ a.ident = b.ident /\ a.ty = b.ty /\ SupportedType(a.ty)
        /\ ~get_serde(a.attrs).panic /\ ~get_serde(b.attrs).panic
        /\ get_serde(a.attrs).set # get_serde(b.attrs).set)
    => ~IsOk(result)

IsSerde(attr) == attr.path # <<>> /\ attr.path[1] = "serde"

\* C9: get_serde aborts on every serde attribute whose payload is not exactly
\* one group: a group followed by more tokens, an empty payload, or a payload
\* whose first token is not a group.
C9_SerdePayloadIsOneGroup ==
    (Called("get_serde") /\ \E i \in 1..Len(a) : IsSerde(a[i]) /\ ~IsSerdeGroup(a[i]))
    => IsPanic(result)

Diagnostics == <<"schema", "rustfmt(output)">>

====
